---- MODULE Spec2Model ----
(***************************************************************************)
(* Model of superqt.utils._throttler: GenericSignalThrottler (the rate     *)
(* controller), ThrottledCallable (the deferred call with its futures) and *)
(* ThrottledCallable.__get__ (the per-receiver binding).                   *)
(*                                                                         *)
(* Time is discrete.  A QTimer is (timerActive, remaining): Tick lets one  *)
(* millisecond pass and is disabled while an active timer has remaining 0, *)
(* so a timer expires exactly interval ms after it was (re)started; the    *)
(* order of an expiry and of calls made at the same instant is free.       *)
(***************************************************************************)
EXTENDS Integers, Sequences, FiniteSets, TLC

(* ---- bounds ---- *)
TimeoutMs == 2      \* timeout given to qthrottled/qdebounced
MaxCalls  == 3      \* __call__ invocations in one run of Spec
MaxBindCalls == 2  \* __call__ invocations in one run of SpecBind
MaxBound  == 2      \* ThrottledCallable objects created by __get__
MaxScopeCalls == 2  \* __call__ and throttle() invocations in one run of SpecScope
MaxDepth  == 2      \* throttling_disabled scopes open at the same time
MaxTimeoutCalls == 3  \* __call__ invocations in one run of SpecTimeout
MaxRequests == 3    \* __call__ and throttle() invocations in one run of SpecCore
MaxTemplateCalls == 2  \* __call__ invocations in one run of SpecTemplate
MaxIselCalls == 2   \* isel_async calls in one run of SpecIsel
MaxReentries == 2   \* throttle() invocations made by the slot in one run of SpecReentrant

(* ---- inputs ---- *)
Receivers == {"A", "B"}
Timeouts  == {1, TimeoutMs}         \* the timeouts given to setTimeout
ArgTuples == {<<1>>, <<2, 1>>}      \* positional argument tuples of a call
Kwargs    == {{}, {<<"key", 1>>}}    \* keyword arguments of a call, as name-value pairs
\* the calls made in Spec: one positional argument, or two and a keyword argument
CallInputs == {<<args, kwargs>> \in ArgTuples \X Kwargs : Len(args) > 1 <=> kwargs # {}}
NoLimit   == -1                     \* _max_args is None
MaxArgsChoices == {1, NoLimit}

Throttler == "Throttler"
Debouncer == "Debouncer"
Leading   == "Leading"
Trailing  == "Trailing"
Kind           == {Throttler, Debouncer}
EmissionPolicy == {Trailing, Leading}

VARIABLES
    ts,         \* the ThrottledCallable objects; ts[1] is the class-level one
    cache,      \* receiver -> index of the object stored in its __dict__, 0 if none
    cacheable,  \* receiver -> setattr(instance, name, ...) succeeds
    got,        \* history: receiver -> the objects its first and its latest
                \* attribute access returned, 0 before the first access
    ncalls,     \* history: number of __call__ made so far
    last,       \* history: the last __call__ or throttle(), cancel() or flush()
                \* that met a pending emission, exit from a throttling_disabled
                \* scope or TypeError raised by one, and the object it was made on
    scopes,     \* the running throttling_disabled generators, innermost last:
                \* their local variables prev and prev_flush
    requests    \* the isel_async calls made so far: store and indexers, the
                \* future handed out and the position of the worker thread

vars == <<ts, cache, cacheable, got, ncalls, last, scopes, requests>>

Cap == TimeoutMs + 1               \* the elapsed-time histories saturate here
Min(a, b) == IF a < b THEN a ELSE b

(* ---- concurrent.futures.Future ---- *)
NewFuture(args, kwargs) ==
    [st |-> "pending", val |-> <<>>,
     args |-> args,                 \* history: the arguments of the __call__ that made it
     kwargs |-> kwargs,
     runs |-> 0, ranWith |-> <<>>,  \* history: executions of the wrapped function for it
     ranKw |-> {},                  \* and the arguments the latest of them got
     outcome |-> "none"]            \* history: how the latest of them ended

FutureDone(f) == f.st # "pending"

FutureCancel(f) == IF f.st = "pending" THEN [f EXCEPT !.st = "cancelled"] ELSE f

CurFut(t) == t.futs[Len(t.futs)]

(* ---- GenericSignalThrottler / ThrottledCallable ---- *)
NewThrottledCallable(kind, policy, maxArgs, owner) ==
    [kind |-> kind, emissionPolicy |-> policy,
     hasPendingEmission |-> FALSE,
     throttle |-> "method", flush |-> "method",  \* what self.throttle and self.flush find
     timerActive |-> FALSE, remaining |-> 0, interval |-> 0,
     timerType |-> "PreciseTimer",
     name |-> FALSE,                \* _name is set
     isStatic |-> FALSE,            \* _is_static
     futs |-> <<NewFuture(<<>>, {})>>, args |-> <<>>, kwargs |-> {}, maxArgs |-> maxArgs,
     aborted |-> FALSE,
     owner |-> owner,               \* history: the receiver it is bound to
     nre |-> 0,                     \* history: throttle() calls made from inside the slot
     seen |-> [hasPendingEmission |-> FALSE,  \* and the state the latest of them found
               timerActive |-> FALSE, remaining |-> 0],
     nfire |-> 0, sinceFire |-> Cap, sinceCall |-> Cap]

\* QTimer.setInterval: a running timer is stopped and started again with the
\* new interval
TimerSetInterval(t, msec) ==
    [t EXCEPT !.interval = msec,
              !.remaining = IF t.timerActive THEN msec ELSE @]

\* faulty variant: the running countdown is left alone
SetTimeoutKeepsCountdown(t, timeout) == [t EXCEPT !.interval = timeout]

SetTimeout(t, timeout) ==
    IF t.interval # timeout THEN TimerSetInterval(t, timeout) ELSE t

TimerTypes == {"PreciseTimer", "CoarseTimer"}

SetTimerType(t, timerType) ==
    IF t.timerType # timerType THEN [t EXCEPT !.timerType = timerType] ELSE t

\* __set_name__, called when the class body that holds the object is executed
SetName(t) == [t EXCEPT !.name = TRUE]

TimerStart(t) == [t EXCEPT !.timerActive = TRUE, !.remaining = t.interval]

Prefix(s, n) == IF n = NoLimit \/ n >= Len(s) THEN s ELSE SubSeq(s, 1, n)

\* faulty variant: the wrapped function is given every positional argument
SetFutureResultAllArgs(t, ret) ==
    LET passed == t.args
        n      == Len(t.futs)
        f      == [t.futs[n] EXCEPT !.runs = @ + 1, !.ranWith = passed,
                                    !.ranKw = t.kwargs,
                                    !.outcome = IF ret THEN "returned" ELSE "raised"]
        g      == IF ret /\ f.st = "pending"
                  THEN [f EXCEPT !.st = "finished", !.val = passed]
                  ELSE f
    IN [t EXCEPT !.futs[n] = g]

\* the slot connected to triggered: ret says whether the wrapped function returns
SetFutureResult(t, ret) ==
    LET passed == Prefix(t.args, t.maxArgs)
        n      == Len(t.futs)
        f      == [t.futs[n] EXCEPT !.runs = @ + 1, !.ranWith = passed,
                                    !.ranKw = t.kwargs,
                                    !.outcome = IF ret THEN "returned" ELSE "raised"]
        g      == IF ret /\ f.st = "pending"
                  THEN [f EXCEPT !.st = "finished", !.val = passed]
                  ELSE f
    IN [t EXCEPT !.futs[n] = g]

\* the slot ends with an exception: the wrapped function raised, or set_result
\* met a future that is already done (InvalidStateError)
SlotRaises(t, ret) == ~ret \/ FutureDone(CurFut(t))

\* hook: what the Qt binding does with an exception that leaves a slot
SlotErrorHooks == {"print", "abort"}

\* faulty variant: a debouncer does not start its timer again after an emission
EmitTriggeredDebouncerIdle(t, ret, hook) ==
    LET t1 == [t EXCEPT !.hasPendingEmission = FALSE,
                        !.nfire = @ + 1, !.sinceFire = 0]
        t2 == SetFutureResult(t1, ret)
    IN IF SlotRaises(t1, ret) /\ hook = "abort"
       THEN [t2 EXCEPT !.aborted = TRUE]
       ELSE IF t2.kind = Debouncer THEN t2 ELSE TimerStart(t2)

\* faulty variant: an emission whose slot raised stays pending
EmitTriggeredRetries(t, ret, hook) ==
    LET t1 == [t EXCEPT !.hasPendingEmission = FALSE,
                        !.nfire = @ + 1, !.sinceFire = 0]
        t2 == SetFutureResult(t1, ret)
    IN IF SlotRaises(t1, ret) /\ hook = "abort"
       THEN [t2 EXCEPT !.aborted = TRUE]
       ELSE TimerStart([t2 EXCEPT !.hasPendingEmission = SlotRaises(t1, ret)])

EmitTriggered(t, ret, hook) ==
    LET t1 == [t EXCEPT !.hasPendingEmission = FALSE,
                        !.nfire = @ + 1, !.sinceFire = 0]
        t2 == SetFutureResult(t1, ret)
    IN IF SlotRaises(t1, ret) /\ hook = "abort"
       THEN [t2 EXCEPT !.aborted = TRUE]
       ELSE TimerStart(t2)

\* faulty variant: the timer and flush() emit whether or not an emission is pending
MaybeEmitAlways(t, ret, hook) == EmitTriggered(t, ret, hook)

MaybeEmitTriggered(t, ret, hook) ==
    IF t.hasPendingEmission THEN EmitTriggered(t, ret, hook) ELSE t

\* faulty variant: the leading emission does not look at the timer
ThrottleIgnoresTimer(t, ret, hook) ==
    LET t1 == [t EXCEPT !.hasPendingEmission = TRUE]
        t2 == IF t1.emissionPolicy = Leading
              THEN EmitTriggered(t1, ret, hook)
              ELSE t1
    IN IF t2.aborted THEN t2
       ELSE IF t2.kind = Throttler
            THEN IF ~t2.timerActive THEN TimerStart(t2) ELSE t2
            ELSE TimerStart(t2)

\* faulty variant: a debouncer starts its timer like a throttler, without restarting it
ThrottleNoRestart(t, ret, hook) ==
    LET t1 == [t EXCEPT !.hasPendingEmission = TRUE]
        t2 == IF t1.emissionPolicy = Leading /\ ~t1.timerActive
              THEN EmitTriggered(t1, ret, hook)
              ELSE t1
    IN IF t2.aborted THEN t2
       ELSE IF ~t2.timerActive THEN TimerStart(t2) ELSE t2

\* faulty variant: the test that guards the start of a throttler's timer is inverted
ThrottleInvertedStart(t, ret, hook) ==
    LET t1 == [t EXCEPT !.hasPendingEmission = TRUE]
        t2 == IF t1.emissionPolicy = Leading /\ ~t1.timerActive
              THEN EmitTriggered(t1, ret, hook)
              ELSE t1
    IN IF t2.aborted THEN t2
       ELSE IF t2.kind = Throttler
            THEN IF t2.timerActive THEN TimerStart(t2) ELSE t2
            ELSE TimerStart(t2)

\* faulty variant: a throttler restarts its timer on every request, like a debouncer
ThrottleAlwaysRestarts(t, ret, hook) ==
    LET t1 == [t EXCEPT !.hasPendingEmission = TRUE]
        t2 == IF t1.emissionPolicy = Leading /\ ~t1.timerActive
              THEN EmitTriggered(t1, ret, hook)
              ELSE t1
    IN IF t2.aborted THEN t2 ELSE TimerStart(t2)

Throttle(t, ret, hook) ==
    LET t1 == [t EXCEPT !.hasPendingEmission = TRUE]
        t2 == IF t1.emissionPolicy = Leading /\ ~t1.timerActive
              THEN EmitTriggered(t1, ret, hook)
              ELSE t1
    IN IF t2.aborted THEN t2
       ELSE IF t2.kind = Throttler
            THEN IF ~t2.timerActive THEN TimerStart(t2) ELSE t2
            ELSE TimerStart(t2)

\* faulty variant: the replacement of throttle goes through _emitTriggered
TriggeredEmitRestarts(t, ret, hook) == EmitTriggered(t, ret, hook)

\* obj.triggered.emit(): the connected slot runs synchronously
TriggeredEmit(t, ret, hook) ==
    LET t1 == [t EXCEPT !.nfire = @ + 1, !.sinceFire = 0]
        t2 == SetFutureResult(t1, ret)
    IN IF SlotRaises(t1, ret) /\ hook = "abort"
       THEN [t2 EXCEPT !.aborted = TRUE]
       ELSE t2

\* self.throttle(): the instance attribute set by throttling_disabled when
\* there is one, else the method
CallThrottle(t, ret, hook) ==
    IF t.throttle = "lambda" THEN TriggeredEmit(t, ret, hook) ELSE Throttle(t, ret, hook)

(* ---- a slot that calls throttle() on its own throttler ---- *)
RECURSIVE ThrottleReentrant(_, _, _)
RECURSIVE EmitTriggeredReentrant(_, _, _)

\* the wrapped function calls self.throttle() when k > 0 (its calls nested
\* deeper make k - 1 further ones) and returns; set_result follows
SlotReentrant(t, k, hook) ==
    LET t1 == IF k > 0
              THEN ThrottleReentrant(
                       [t EXCEPT !.nre = @ + 1,
                                 !.seen = [hasPendingEmission |-> t.hasPendingEmission,
                                           timerActive |-> t.timerActive,
                                           remaining |-> t.remaining]],
                       k - 1, hook)
              ELSE t
        t2 == SetFutureResult(t1, TRUE)
    IN IF t1.aborted THEN t1
       ELSE IF SlotRaises(t1, TRUE) /\ hook = "abort"
            THEN [t2 EXCEPT !.aborted = TRUE]
            ELSE t2

\* _emitTriggered with that slot connected to triggered
EmitTriggeredReentrant(t, k, hook) ==
    LET t1 == [t EXCEPT !.hasPendingEmission = FALSE,
                        !.nfire = @ + 1, !.sinceFire = 0]
        t2 == SlotReentrant(t1, k, hook)
    IN IF t2.aborted THEN t2 ELSE TimerStart(t2)

\* throttle() with that slot connected to triggered
ThrottleReentrant(t, k, hook) ==
    LET t1 == [t EXCEPT !.hasPendingEmission = TRUE]
        t2 == IF t1.emissionPolicy = Leading /\ ~t1.timerActive
              THEN EmitTriggeredReentrant(t1, k, hook)
              ELSE t1
    IN IF t2.aborted THEN t2
       ELSE IF t2.kind = Throttler
            THEN IF ~t2.timerActive THEN TimerStart(t2) ELSE t2
            ELSE TimerStart(t2)

(* ---- a wrapped function that calls its own ThrottledCallable ---- *)
RECURSIVE CallReinvoke(_, _, _)
RECURSIVE ThrottleReinvoke(_, _, _)
RECURSIVE EmitTriggeredReinvoke(_, _, _)

\* _set_future_result: the wrapped function is entered with the arguments
\* stored at that moment, calls self(2, 1) when k > 0 (the executions nested
\* deeper make k - 1 further calls) and returns its arguments; set_result is
\* then applied to whatever self._future is by now
SlotReinvoke(t, k, hook) ==
    LET passed == Prefix(t.args, t.maxArgs)
        n      == Len(t.futs)
        t0     == [t EXCEPT !.futs[n] =
                       [@ EXCEPT !.runs = @ + 1, !.ranWith = passed,
                                 !.ranKw = t.kwargs, !.outcome = "returned"]]
        t1     == IF k > 0
                  THEN CallReinvoke(
                           [t0 EXCEPT !.nre = @ + 1,
                                      !.seen = [hasPendingEmission |-> t0.hasPendingEmission,
                                                timerActive |-> t0.timerActive,
                                                remaining |-> t0.remaining]],
                           k - 1, hook)
                  ELSE t0
        m      == Len(t1.futs)
        t2     == IF FutureDone(t1.futs[m]) THEN t1
                  ELSE [t1 EXCEPT !.futs[m] =
                           [@ EXCEPT !.st = "finished", !.val = passed]]
    IN IF t1.aborted THEN t1
       ELSE IF FutureDone(t1.futs[m]) /\ hook = "abort"
            THEN [t1 EXCEPT !.aborted = TRUE]
            ELSE t2

\* _emitTriggered with that slot connected to triggered
EmitTriggeredReinvoke(t, k, hook) ==
    LET t1 == [t EXCEPT !.hasPendingEmission = FALSE,
                        !.nfire = @ + 1, !.sinceFire = 0]
        t2 == SlotReinvoke(t1, k, hook)
    IN IF t2.aborted THEN t2 ELSE TimerStart(t2)

\* throttle() with that slot connected to triggered
ThrottleReinvoke(t, k, hook) ==
    LET t1 == [t EXCEPT !.hasPendingEmission = TRUE]
        t2 == IF t1.emissionPolicy = Leading /\ ~t1.timerActive
              THEN EmitTriggeredReinvoke(t1, k, hook)
              ELSE t1
    IN IF t2.aborted THEN t2
       ELSE IF t2.kind = Throttler
            THEN IF ~t2.timerActive THEN TimerStart(t2) ELSE t2
            ELSE TimerStart(t2)

\* __call__ made by the wrapped function, with the arguments (2, 1)
CallReinvoke(t, k, hook) ==
    LET n  == Len(t.futs)
        t1 == [t EXCEPT !.futs[n] = FutureCancel(@)]
        t2 == [t1 EXCEPT !.futs = Append(@, NewFuture(<<2, 1>>, {})),
                         !.args = <<2, 1>>, !.kwargs = {}]
    IN ThrottleReinvoke(t2, k, hook)

\* faulty variant: cancel() also stops the timer
CancelStopsTimer(t) == [t EXCEPT !.hasPendingEmission = FALSE, !.timerActive = FALSE]

\* faulty variant: cancel() leaves the pending emission in place
CancelKeepsPending(t) == t

CancelOp(t) == [t EXCEPT !.hasPendingEmission = FALSE]

FlushOp(t, ret, hook) == MaybeEmitTriggered(t, ret, hook)

\* self.flush(): the instance attribute set by throttling_disabled when there
\* is one, else the method
CallFlush(t, ret, hook) ==
    IF t.flush = "lambda" THEN t ELSE FlushOp(t, ret, hook)

\* faulty variant: a call made while an emission is pending keeps the arguments of the
\* call that made it pending
CallKeepsFirstArgs(t, args, kwargs, ret, hook) ==
    LET n  == Len(t.futs)
        t1 == [t EXCEPT !.futs[n] = FutureCancel(@)]
        t2 == [t1 EXCEPT !.futs = Append(@, NewFuture(args, kwargs)),
                         !.args = IF t.hasPendingEmission THEN @ ELSE args,
                         !.kwargs = IF t.hasPendingEmission THEN @ ELSE kwargs]
    IN CallThrottle(t2, ret, hook)

\* faulty variant: the previous future is not cancelled
CallKeepsOldFuture(t, args, kwargs, ret, hook) ==
    LET t2 == [t EXCEPT !.futs = Append(@, NewFuture(args, kwargs)),
                        !.args = args, !.kwargs = kwargs]
    IN CallThrottle(t2, ret, hook)

CallOp(t, args, kwargs, ret, hook) ==
    LET n  == Len(t.futs)
        t1 == [t EXCEPT !.futs[n] = FutureCancel(@)]
        t2 == [t1 EXCEPT !.futs = Append(@, NewFuture(args, kwargs)),
                         !.args = args, !.kwargs = kwargs]
    IN CallThrottle(t2, ret, hook)

Alive == \A o \in DOMAIN ts : ~ts[o].aborted

(* ---- stack_viewer._indexing: isel and isel_async ---- *)
\* a one-dimensional ndarray, and an object isel does not know how to index
Stores == {[type |-> "ndarray", data |-> <<10, 20>>],
           [type |-> "object", data |-> <<>>]}

\* indexers: the empty mapping (NoIndex), or {0: i} with i counted from 0
NoIndex == -1
Indexers == {NoIndex, 0, 1, 2}

\* isel raises: NotImplementedError for an unknown store, IndexError for an
\* index outside the axis
IselRaises(store, indexers) ==
    \/ store.type # "ndarray"
    \/ indexers # NoIndex /\ indexers >= Len(store.data)

\* isel_np_array: data[idx] with slice(None) for an axis without indexer
Isel(store, indexers) ==
    IF indexers = NoIndex THEN store.data ELSE <<store.data[indexers + 1]>>

\* _thread_target: an exception of isel leaves the thread; set_result on a
\* future that is done raises InvalidStateError, which is suppressed
ThreadTarget(r) ==
    IF IselRaises(r.store, r.indexers)
    THEN [r EXCEPT !.thread = "raised"]
    ELSE [r EXCEPT !.thread = "returned",
                   !.fut = IF r.fut.st = "pending"
                           THEN [st |-> "finished",
                                 val |-> <<r.indexers, Isel(r.store, r.indexers)>>]
                           ELSE @]

\* isel_async(store, indexers): a new future, and a started thread
IselAsync(store, indexers) ==
    /\ Len(requests) < MaxIselCalls
    /\ requests' = Append(requests, [store |-> store, indexers |-> indexers,
                                     fut |-> [st |-> "pending", val |-> <<>>],
                                     thread |-> "started"])
    /\ UNCHANGED <<ts, cache, cacheable, got, ncalls, last, scopes>>

\* the worker thread of request i runs _thread_target to its end
IselWorker(i) ==
    /\ requests[i].thread = "started"
    /\ requests' = [requests EXCEPT ![i] = ThreadTarget(@)]
    /\ UNCHANGED <<ts, cache, cacheable, got, ncalls, last, scopes>>

\* the consumer calls cancel() on the future of request i
IselCancel(i) ==
    /\ requests' = [requests EXCEPT ![i].fut = FutureCancel(@)]
    /\ UNCHANGED <<ts, cache, cacheable, got, ncalls, last, scopes>>

(* ---- actions ---- *)
InitWith(cacheables, arities) ==
    /\ \E k \in Kind, p \in EmissionPolicy, m \in arities :
          ts = <<SetName(SetTimeout(NewThrottledCallable(k, p, m, "class"), TimeoutMs))>>
    /\ cache = [r \in Receivers |-> 0]
    /\ cacheable \in cacheables
    /\ got = [r \in Receivers |-> [first |-> 0, latest |-> 0]]
    /\ ncalls = 0
    /\ last = [op |-> "init", obj |-> 1]
    /\ scopes = <<>>
    /\ requests = <<>>

\* o(*args, **kwargs) with <<args, kwargs>> in inputs; rets are the ways the
\* wrapped function can end (TRUE: it returns)
DoCall(o, inputs, rets, max) ==
    /\ Alive /\ ncalls < max
    /\ \E in \in inputs, ret \in rets, hook \in SlotErrorHooks :
          ts' = [ts EXCEPT ![o] =
                    [CallOp(ts[o], in[1], in[2], ret, hook) EXCEPT !.sinceCall = 0]]
    /\ ncalls' = ncalls + 1
    /\ last' = [op |-> "call", obj |-> o]
    /\ UNCHANGED <<cache, cacheable, got, scopes, requests>>

\* o.cancel()
Cancel(o) ==
    /\ Alive
    /\ ts' = [ts EXCEPT ![o] = CancelOp(ts[o])]
    /\ last' = IF ts[o].hasPendingEmission THEN [op |-> "cancel", obj |-> o] ELSE last
    /\ UNCHANGED <<cache, cacheable, got, ncalls, scopes, requests>>

\* o.flush()
DoFlush(o, rets) ==
    /\ Alive
    /\ \E ret \in rets, hook \in SlotErrorHooks :
          ts' = [ts EXCEPT ![o] = CallFlush(ts[o], ret, hook)]
    /\ last' = IF ts[o].hasPendingEmission /\ ts[o].flush = "method"
               THEN [op |-> "flush", obj |-> o]
               ELSE last
    /\ UNCHANGED <<cache, cacheable, got, ncalls, scopes, requests>>

\* the single-shot timer of o expires: it is inactive when its timeout signal
\* reaches _maybeEmitTriggered
DoTimeout(o, rets) ==
    /\ Alive
    /\ ts[o].timerActive /\ ts[o].remaining = 0
    /\ \E ret \in rets, hook \in SlotErrorHooks :
          ts' = [ts EXCEPT ![o] =
                    MaybeEmitTriggered([ts[o] EXCEPT !.timerActive = FALSE], ret, hook)]
    /\ UNCHANGED <<cache, cacheable, got, ncalls, last, scopes, requests>>

\* one millisecond passes
Tick ==
    /\ Alive
    /\ \A o \in DOMAIN ts : ts[o].timerActive => ts[o].remaining > 0
    /\ ts' = [o \in DOMAIN ts |->
                [ts[o] EXCEPT !.remaining = IF ts[o].timerActive THEN @ - 1 ELSE @,
                              !.sinceFire = Min(@ + 1, Cap),
                              !.sinceCall = Min(@ + 1, Cap)]]
    /\ UNCHANGED <<cache, cacheable, got, ncalls, last, scopes, requests>>

\* o.throttle(), looked up on the object when it is called
DoThrottle(o, rets, max) ==
    /\ Alive /\ ncalls < max
    /\ \E ret \in rets, hook \in SlotErrorHooks :
          ts' = [ts EXCEPT ![o] =
                    [CallThrottle(ts[o], ret, hook) EXCEPT !.sinceCall = 0]]
    /\ ncalls' = ncalls + 1
    /\ last' = [op |-> "throttle", obj |-> o]
    /\ UNCHANGED <<cache, cacheable, got, scopes, requests>>

\* o.setTimeout(ms)
DoSetTimeout(o, ms) ==
    /\ Alive
    /\ ts' = [ts EXCEPT ![o] = SetTimeout(ts[o], ms)]
    /\ UNCHANGED <<cache, cacheable, got, ncalls, last, scopes, requests>>

\* o(1) when the wrapped function calls o.throttle() k times
ReentrantCall(o, k, max) ==
    /\ Alive /\ ncalls < max /\ ts[o].nre + k <= MaxReentries
    /\ \E hook \in SlotErrorHooks :
          LET n  == Len(ts[o].futs)
              t1 == [ts[o] EXCEPT !.futs[n] = FutureCancel(@)]
              t2 == [t1 EXCEPT !.futs = Append(@, NewFuture(<<1>>, {})),
                               !.args = <<1>>, !.kwargs = {}]
          IN ts' = [ts EXCEPT ![o] =
                       [ThrottleReentrant(t2, k, hook) EXCEPT !.sinceCall = 0]]
    /\ ncalls' = ncalls + 1
    /\ last' = [op |-> "call", obj |-> o]
    /\ UNCHANGED <<cache, cacheable, got, scopes, requests>>

\* the timer of o expires when the wrapped function calls o.throttle() k times
ReentrantTimeout(o, k) ==
    /\ Alive /\ ts[o].nre + k <= MaxReentries
    /\ ts[o].timerActive /\ ts[o].remaining = 0
    /\ \E hook \in SlotErrorHooks :
          LET t1 == [ts[o] EXCEPT !.timerActive = FALSE]
          IN ts' = [ts EXCEPT ![o] =
                       IF t1.hasPendingEmission
                       THEN EmitTriggeredReentrant(t1, k, hook)
                       ELSE t1]
    /\ UNCHANGED <<cache, cacheable, got, ncalls, last, scopes, requests>>

\* o(1) when the wrapped function calls o(2, 1) k times
ReinvokeCall(o, k, max) ==
    /\ Alive /\ ncalls < max /\ ts[o].nre + k <= MaxReentries
    /\ \E hook \in SlotErrorHooks :
          LET n  == Len(ts[o].futs)
              t1 == [ts[o] EXCEPT !.futs[n] = FutureCancel(@)]
              t2 == [t1 EXCEPT !.futs = Append(@, NewFuture(<<1>>, {})),
                               !.args = <<1>>, !.kwargs = {}]
          IN ts' = [ts EXCEPT ![o] =
                       [ThrottleReinvoke(t2, k, hook) EXCEPT !.sinceCall = 0]]
    /\ ncalls' = ncalls + 1
    /\ last' = [op |-> "call", obj |-> o]
    /\ UNCHANGED <<cache, cacheable, got, scopes, requests>>

\* the timer of o expires when the wrapped function calls o(2, 1) k times
ReinvokeTimeout(o, k) ==
    /\ Alive /\ ts[o].nre + k <= MaxReentries
    /\ ts[o].timerActive /\ ts[o].remaining = 0
    /\ \E hook \in SlotErrorHooks :
          LET t1 == [ts[o] EXCEPT !.timerActive = FALSE]
          IN ts' = [ts EXCEPT ![o] =
                       IF t1.hasPendingEmission
                       THEN EmitTriggeredReinvoke(t1, k, hook)
                       ELSE t1]
    /\ UNCHANGED <<cache, cacheable, got, ncalls, last, scopes, requests>>

(* ---- throttling_disabled ---- *)
\* what throttling_disabled can be given: a throttler, an object whose
\* attribute throttler is one, an object whose attribute throttler is none,
\* an object without that attribute
Objects == {"throttler", "decorated", "misattributed", "plain"}

\* the GenericSignalThrottler found for obj, 0 when there is none
ThrottlerOf(obj) ==
    CASE obj = "throttler" -> 1
      [] obj = "decorated" -> 1
      [] OTHER -> 0

\* faulty variant: what getattr(obj, "throttler", None) gives is not checked,
\* so that reading its attribute throttle fails
EnterUnchecked(obj) ==
    /\ Alive
    /\ LET o == ThrottlerOf(obj)
       IN IF o = 0
          THEN /\ last' = [op |-> "AttributeError", obj |-> 0]
               /\ UNCHANGED <<ts, scopes>>
          ELSE /\ Len(scopes) < MaxDepth
               /\ scopes' = Append(scopes, [obj |-> o, prev |-> ts[o].throttle,
                                            prev_flush |-> ts[o].flush])
               /\ ts' = [ts EXCEPT ![o].throttle = "lambda", ![o].flush = "lambda"]
               /\ UNCHANGED last
    /\ UNCHANGED <<cache, cacheable, got, ncalls, requests>>

\* with throttling_disabled(obj): up to the yield
Enter(obj) ==
    /\ Alive
    /\ LET o == ThrottlerOf(obj)
       IN IF o = 0
          THEN /\ last' = [op |-> "TypeError", obj |-> 0]
               /\ UNCHANGED <<ts, scopes>>
          ELSE /\ Len(scopes) < MaxDepth
               /\ scopes' = Append(scopes, [obj |-> o, prev |-> ts[o].throttle,
                                            prev_flush |-> ts[o].flush])
               /\ ts' = [ts EXCEPT ![o].throttle = "lambda", ![o].flush = "lambda"]
               /\ UNCHANGED last
    /\ UNCHANGED <<cache, cacheable, got, ncalls, requests>>

\* faulty variant: the attributes are restored after the yield without a
\* finally clause
ExitNoFinally(exc) ==
    /\ Alive /\ Len(scopes) > 0
    /\ LET fr == scopes[Len(scopes)]
       IN ts' = IF exc THEN ts
                ELSE [ts EXCEPT ![fr.obj].throttle = fr.prev,
                                ![fr.obj].flush = fr.prev_flush]
    /\ scopes' = SubSeq(scopes, 1, Len(scopes) - 1)
    /\ last' = [op |-> IF exc THEN "exit by exception" ELSE "exit",
                obj |-> scopes[Len(scopes)].obj]
    /\ UNCHANGED <<cache, cacheable, got, ncalls, requests>>

\* the body of the innermost scope ends, normally or (exc) by an exception:
\* the finally clause
Exit(exc) ==
    /\ Alive /\ Len(scopes) > 0
    /\ LET fr == scopes[Len(scopes)]
       IN ts' = [ts EXCEPT ![fr.obj].throttle = fr.prev,
                           ![fr.obj].flush = fr.prev_flush]
    /\ scopes' = SubSeq(scopes, 1, Len(scopes) - 1)
    /\ last' = [op |-> IF exc THEN "exit by exception" ELSE "exit",
                obj |-> scopes[Len(scopes)].obj]
    /\ UNCHANGED <<cache, cacheable, got, ncalls, requests>>

Returned(g, o) == [first |-> IF g.first = 0 THEN o ELSE g.first, latest |-> o]

\* faulty variant: the bound object keeps the timeout and timer type of a new object
DescriptorGetDefaults(self) ==
    NewThrottledCallable(self.kind, self.emissionPolicy, self.maxArgs, "bound")

\* ThrottledCallable.__get__(self, instance, owner) with instance not None, a
\* name set by __set_name__ and a wrapped function that is no staticmethod
DescriptorGet(self) ==
    SetTimerType(SetTimeout(NewThrottledCallable(self.kind, self.emissionPolicy,
                                                 self.maxArgs, "bound"),
                            self.interval),
                 self.timerType)

\* faulty variant: __get__ returns the class-level object itself
GetReturnsSelf(r) ==
    /\ Alive
    /\ got' = [got EXCEPT ![r] = Returned(@, IF cache[r] # 0 THEN cache[r] ELSE 1)]
    /\ UNCHANGED <<ts, cache, cacheable, ncalls, last, scopes, requests>>

\* faulty variant: an object without a name, or one that wraps a staticmethod,
\* is bound to the receiver as well
GetBindsAlways(r) ==
    /\ Alive
    /\ IF cache[r] # 0
       THEN /\ got' = [got EXCEPT ![r] = Returned(@, cache[r])]
            /\ UNCHANGED <<ts, cache>>
       ELSE /\ Len(ts) < 1 + MaxBound
            /\ LET new == Len(ts) + 1
               IN /\ ts' = Append(ts, [DescriptorGet(ts[1]) EXCEPT !.owner = r])
                  /\ cache' = IF cacheable[r] THEN [cache EXCEPT ![r] = new] ELSE cache
                  /\ got' = [got EXCEPT ![r] = Returned(@, new)]
    /\ UNCHANGED <<cacheable, ncalls, last, scopes, requests>>

\* the attribute access instance.name on receiver r: the entry of the instance
\* __dict__ when there is one, else the class attribute's __get__
Get(r) ==
    /\ Alive
    /\ IF cache[r] # 0
       THEN /\ got' = [got EXCEPT ![r] = Returned(@, cache[r])]
            /\ UNCHANGED <<ts, cache>>
       ELSE IF ~ts[1].name \/ ts[1].isStatic
       THEN /\ got' = [got EXCEPT ![r] = Returned(@, 1)]
            /\ UNCHANGED <<ts, cache>>
       ELSE /\ Len(ts) < 1 + MaxBound
            /\ LET new == Len(ts) + 1
               IN /\ ts' = Append(ts, [DescriptorGet(ts[1]) EXCEPT !.owner = r])
                  /\ cache' = IF cacheable[r] THEN [cache EXCEPT ![r] = new] ELSE cache
                  /\ got' = [got EXCEPT ![r] = Returned(@, new)]
    /\ UNCHANGED <<cacheable, ncalls, last, scopes, requests>>

\* the attribute access Class.name: __get__ with instance None
ClassGet ==
    /\ Alive
    /\ last' = [op |-> "class get", obj |-> 1]
    /\ UNCHANGED <<ts, cache, cacheable, got, ncalls, scopes, requests>>

\* o.setTimerType(timerType), called while the timer of o is stopped
DoSetTimerType(o, timerType) ==
    /\ Alive /\ ~ts[o].timerActive
    /\ ts' = [ts EXCEPT ![o] = SetTimerType(ts[o], timerType)]
    /\ UNCHANGED <<cache, cacheable, got, ncalls, last, scopes, requests>>

(* ---- Spec: one ThrottledCallable, the wrapped function may raise ---- *)
Init == InitWith({[r \in Receivers |-> TRUE]}, MaxArgsChoices)

Call    == DoCall(1, CallInputs, BOOLEAN, MaxCalls)
Flush   == DoFlush(1, BOOLEAN)
Timeout == DoTimeout(1, BOOLEAN)

Next ==
    \/ Call
    \/ Cancel(1)
    \/ Flush
    \/ Timeout
    \/ Tick

Spec == Init /\ [][Next]_vars

(* ---- SpecBind: a method of a class wrapped at class level and used    ---- *)
(* ---- through receivers; the wrapped method returns                    ---- *)
\* setattr may fail on receiver A
InitBind == InitWith({c \in [Receivers -> BOOLEAN] : c["B"]}, {NoLimit})

\* the objects some receiver's attribute access has returned
Held == {got[r].first : r \in Receivers} \cup {got[r].latest : r \in Receivers}

BindCall(o)    == o \in Held /\ DoCall(o, {<<<<1>>, {}>>}, {TRUE}, MaxBindCalls)
BindCancel(o)  == o \in Held /\ Cancel(o)
BindFlush(o)   == o \in Held /\ DoFlush(o, {TRUE})
BindTimeout(o) == DoTimeout(o, {TRUE})

NextBind ==
    \/ \E r \in Receivers : Get(r)
    \/ \E o \in DOMAIN ts : BindCall(o)
    \/ \E o \in DOMAIN ts : BindCancel(o)
    \/ \E o \in DOMAIN ts : BindFlush(o)
    \/ \E o \in DOMAIN ts : BindTimeout(o)
    \/ Tick

SpecBind == InitBind /\ [][NextBind]_vars

(* ---- SpecScope: one ThrottledCallable used directly, through __call__  ---- *)
(* ---- and inside throttling_disabled scopes                             ---- *)
InitScope == InitWith({[r \in Receivers |-> TRUE]}, {NoLimit})

ScopeCall     == DoCall(1, {<<<<1>>, {}>>}, BOOLEAN, MaxScopeCalls)
ScopeThrottle == DoThrottle(1, BOOLEAN, MaxScopeCalls)
ScopeFlush    == DoFlush(1, BOOLEAN)
ScopeTimeout  == DoTimeout(1, BOOLEAN)

NextScope ==
    \/ ScopeCall
    \/ ScopeThrottle
    \/ Cancel(1)
    \/ ScopeFlush
    \/ ScopeTimeout
    \/ Tick
    \/ \E obj \in Objects : Enter(obj)
    \/ \E exc \in BOOLEAN : Exit(exc)

SpecScope == InitScope /\ [][NextScope]_vars

(* ---- SpecTimeout: one ThrottledCallable whose timeout is changed ---- *)
TimeoutCall   == DoCall(1, {<<<<1>>, {}>>}, BOOLEAN, MaxTimeoutCalls)
TimeoutFlush  == DoFlush(1, BOOLEAN)
TimeoutExpiry == DoTimeout(1, BOOLEAN)

NextTimeout ==
    \/ TimeoutCall
    \/ Cancel(1)
    \/ TimeoutFlush
    \/ TimeoutExpiry
    \/ Tick
    \/ \E ms \in Timeouts : DoSetTimeout(1, ms)

SpecTimeout == InitScope /\ [][NextTimeout]_vars

(* ---- SpecCore: the rate controller of one ThrottledCallable, requested ---- *)
(* ---- through __call__ and through throttle()                           ---- *)
CoreCall     == DoCall(1, {<<<<1>>, {}>>}, BOOLEAN, MaxRequests)
CoreThrottle == DoThrottle(1, BOOLEAN, MaxRequests)
CoreFlush    == DoFlush(1, BOOLEAN)
CoreExpiry   == DoTimeout(1, BOOLEAN)

NextCore ==
    \/ CoreCall
    \/ CoreThrottle
    \/ Cancel(1)
    \/ CoreFlush
    \/ CoreExpiry
    \/ Tick

SpecCore == InitScope /\ [][NextCore]_vars

\* the event loop delivers a due timeout signal, and time passes
SpecCoreLive == SpecCore /\ WF_vars(CoreExpiry) /\ WF_vars(Tick)

(* ---- SpecReentrant: one ThrottledCallable whose wrapped function calls ---- *)
(* ---- throttle() on it                                                  ---- *)
NextReentrant ==
    \/ \E k \in 0..MaxReentries : ReentrantCall(1, k, MaxRequests)
    \/ \E k \in 0..MaxReentries : ReentrantTimeout(1, k)
    \/ Cancel(1)
    \/ Tick

SpecReentrant == InitScope /\ [][NextReentrant]_vars

(* ---- SpecReinvoke: one ThrottledCallable whose wrapped function calls it ---- *)
NextReinvoke ==
    \/ \E k \in 0..MaxReentries : ReinvokeCall(1, k, MaxRequests)
    \/ \E k \in 0..MaxReentries : ReinvokeTimeout(1, k)
    \/ Cancel(1)
    \/ Tick

SpecReinvoke == InitScope /\ [][NextReinvoke]_vars

(* ---- SpecTemplate: a class-level ThrottledCallable, with or without a   ---- *)
(* ---- name, wrapping a method or a staticmethod, used through the class ---- *)
(* ---- and through receiver A                                            ---- *)
InitTemplate ==
    /\ \E k \in Kind, p \in EmissionPolicy, named \in BOOLEAN, static \in BOOLEAN :
          ts = <<[SetTimeout(NewThrottledCallable(k, p, NoLimit, "class"), TimeoutMs)
                    EXCEPT !.name = named, !.isStatic = static]>>
    /\ cache = [r \in Receivers |-> 0]
    /\ cacheable = [r \in Receivers |-> TRUE]
    /\ got = [r \in Receivers |-> [first |-> 0, latest |-> 0]]
    /\ ncalls = 0
    /\ last = [op |-> "init", obj |-> 1]
    /\ scopes = <<>>
    /\ requests = <<>>

TemplateGet          == Get("A")
TemplateCall(o)      == DoCall(o, {<<<<1>>, {}>>}, {TRUE}, MaxTemplateCalls)
TemplateExpiry(o)    == DoTimeout(o, {TRUE})
TemplateSetTimeout   == \E ms \in Timeouts : DoSetTimeout(1, ms)
TemplateSetTimerType == \E timerType \in TimerTypes : DoSetTimerType(1, timerType)

NextTemplate ==
    \/ TemplateGet
    \/ ClassGet
    \/ \E o \in DOMAIN ts : TemplateCall(o)
    \/ \E o \in DOMAIN ts : TemplateExpiry(o)
    \/ Tick
    \/ TemplateSetTimeout
    \/ TemplateSetTimerType

SpecTemplate == InitTemplate /\ [][NextTemplate]_vars

(* ---- SpecIsel: isel_async calls, their worker threads and a consumer ---- *)
(* ---- that may cancel the futures                                      ---- *)
NextIsel ==
    \/ \E store \in Stores, indexers \in Indexers : IselAsync(store, indexers)
    \/ \E i \in DOMAIN requests : IselWorker(i)
    \/ \E i \in DOMAIN requests : IselCancel(i)

SpecIsel == InitScope /\ [][NextIsel]_vars

TypeOK ==
    /\ ncalls \in 0..MaxCalls
    /\ Len(scopes) \in 0..MaxDepth
    /\ Len(ts) \in 1..(1 + MaxBound)
    /\ \A o \in DOMAIN ts :
          /\ ts[o].remaining \in 0..ts[o].interval
          /\ ts[o].kind \in Kind /\ ts[o].emissionPolicy \in EmissionPolicy

(* ---- properties of Spec: tc is its one ThrottledCallable ---- *)
tc == ts[1]
Is(kind, policy) == tc.kind = kind /\ tc.emissionPolicy = policy
Fired == ts'[1].nfire > tc.nfire

\* C1: a Throttler with policy Leading emits at once on a request that finds
\* the timer inactive, never emits twice in one step, and every emission that
\* a request or a timer expiry makes comes at least interval ms after the
\* previous emission.
C1_ThrottleLeadingRate ==
    [][Is(Throttler, Leading) =>
          /\ (Call /\ ~tc.timerActive) => Fired
          /\ ts'[1].nfire <= tc.nfire + 1
          /\ (Fired /\ ~Flush /\ tc.nfire > 0) => tc.sinceFire >= tc.interval]_vars

\* two emissions interval ms apart: the first by the leading edge, the second
\* by the timer for a request made inside the window
C1_Witness ==
    /\ Is(Throttler, Leading)
    /\ tc.nfire = 2 /\ ncalls = 2 /\ tc.sinceFire = 0 /\ tc.sinceCall > 0
    /\ last.op = "call" /\ tc.timerActive /\ tc.remaining = tc.interval

\* C2: a Debouncer with policy Trailing never emits in a request; while an
\* emission is pending its timer runs and expires interval ms after the latest
\* request; an emission made by the timer comes exactly then, and it is the
\* only execution for that request.
C2_DebounceTrailingBurst ==
    [][Is(Debouncer, Trailing) =>
          /\ Call => ~Fired
          /\ (Fired /\ ~Flush) =>
                /\ tc.sinceCall = tc.interval
                /\ CurFut(tc).runs = 0 /\ CurFut(ts'[1]).runs = 1
          /\ ts'[1].hasPendingEmission =>
                /\ ts'[1].timerActive
                /\ ts'[1].remaining + ts'[1].sinceCall = ts'[1].interval]_vars

\* three requests, the first two superseded unexecuted, one emission by the
\* timer interval ms after the third
C2_Witness ==
    /\ Is(Debouncer, Trailing)
    /\ ncalls = 3 /\ tc.nfire = 1 /\ tc.sinceFire = 0 /\ tc.sinceCall = tc.interval
    /\ last.op = "call"
    /\ \A i \in 2..3 : tc.futs[i].st = "cancelled" /\ tc.futs[i].runs = 0
    /\ CurFut(tc).runs = 1

\* C3: every execution of the wrapped function gets the (arity-limited)
\* arguments of the latest __call__, and the future of a superseded __call__
\* gets no execution after it was superseded.
C3_LatestArgs ==
    [][\A i \in DOMAIN ts'[1].futs :
          LET f == ts'[1].futs[i]
          IN /\ f.runs > 0 => f.ranWith = Prefix(f.args, tc.maxArgs)
             /\ i < Len(ts'[1].futs) =>
                   /\ i \in DOMAIN tc.futs
                   /\ f.runs = tc.futs[i].runs /\ f.ranWith = tc.futs[i].ranWith]_vars

\* invoke(A) executed with A, invoke(B) inside the window not executed at
\* once, the expiry executed with B
C3_Witness ==
    /\ Is(Throttler, Leading) /\ ncalls = 2 /\ tc.nfire = 2
    /\ tc.futs[2].args # tc.futs[3].args
    /\ tc.futs[2].st = "finished" /\ tc.futs[2].val = Prefix(tc.futs[2].args, tc.maxArgs)
    /\ tc.futs[3].st = "finished" /\ tc.futs[3].val = Prefix(tc.futs[3].args, tc.maxArgs)
    /\ tc.sinceCall > 0 /\ tc.sinceFire = 0

\* C4: in every step each future but the latest keeps its state, except that
\* one that was unresolved becomes cancelled; so a __call__ cancels the
\* unresolved future of the previous __call__ and only the latest future ever
\* gets a result.
C4_SupersededCancelled ==
    [][\A i \in DOMAIN ts'[1].futs :
          i < Len(ts'[1].futs) =>
             /\ i \in DOMAIN tc.futs
             /\ ts'[1].futs[i].st =
                   IF tc.futs[i].st = "pending" THEN "cancelled" ELSE tc.futs[i].st
             /\ ts'[1].futs[i].val = tc.futs[i].val]_vars

\* the future of the first __call__ cancelled unexecuted, that of the second
\* resolved with a result
C4_Witness ==
    /\ ncalls = 2
    /\ tc.futs[2].st = "cancelled" /\ tc.futs[2].runs = 0
    /\ tc.futs[3].st = "finished"

\* C5: once cancel() has met a pending emission, no step emits before a new
\* request: neither a timer expiry nor flush().
C5_CancelSuppresses ==
    [][(last.op = "cancel" /\ ~Call) => ~Fired]_vars

\* cancel() met a pending emission and the timer has since expired without any
\* emission
C5_Witness ==
    /\ last.op = "cancel" /\ ncalls = 1 /\ tc.nfire = 0
    /\ ~tc.timerActive /\ tc.sinceCall >= tc.interval

\* C6: cancel() on a ThrottledCallable whose handed-out future is unresolved
\* leaves that future cancelled.
C6_CancelCancelsFuture ==
    [][(Cancel(1) /\ ncalls > 0 /\ CurFut(tc).st = "pending")
          => CurFut(ts'[1]).st = "cancelled"]_vars

\* C7: when a flush() that found an emission pending has returned, the wrapped
\* function has run once more, with the latest arguments, the current future
\* is resolved, nothing is pending and the timer runs for a full interval.
C7_FlushFiresAndResolves ==
    [][(Flush /\ tc.hasPendingEmission /\ Alive') =>
          /\ CurFut(ts'[1]).runs = CurFut(tc).runs + 1
          /\ CurFut(ts'[1]).ranWith = Prefix(tc.args, tc.maxArgs)
          /\ CurFut(ts'[1]).st # "pending"
          /\ ~ts'[1].hasPendingEmission
          /\ ts'[1].timerActive /\ ts'[1].remaining = ts'[1].interval]_vars

\* C8: a future whose execution of the wrapped function raised is resolved
\* with that failure.
C8_FailureResolvesFuture ==
    \A i \in DOMAIN tc.futs :
        tc.futs[i].outcome = "raised" => tc.futs[i].st = "failed"

\* C11: at most one handed-out future is unresolved: the future of every
\* __call__ but the latest is resolved or cancelled.
C11_OneOutstandingFuture ==
    \A i \in 2..(Len(tc.futs) - 1) : tc.futs[i].st # "pending"

\* three futures handed out: the first superseded, the second resolved with a
\* result, the third still unresolved
C11_Witness ==
    /\ ncalls = 3 /\ Len(tc.futs) = 4
    /\ tc.futs[2].st = "cancelled" /\ tc.futs[3].st = "finished"
    /\ tc.futs[4].st = "pending" /\ tc.hasPendingEmission

\* C15: after cancel() met a pending emission, and after an execution of the
\* wrapped function that raised, no step but a new __call__ executes the
\* wrapped function: neither a timer expiry nor flush().
C15_NoRetry ==
    [][((last.op = "cancel" \/ CurFut(tc).outcome = "raised") /\ ~Call) =>
          \A i \in DOMAIN tc.futs : ts'[1].futs[i].runs = tc.futs[i].runs]_vars

\* the one execution raised, the timer it restarted has expired and nothing
\* was executed again
C15_Witness ==
    /\ ncalls = 1 /\ last.op = "call"
    /\ CurFut(tc).outcome = "raised" /\ CurFut(tc).runs = 1 /\ tc.nfire = 1
    /\ ~tc.timerActive /\ tc.sinceFire >= tc.interval /\ ~tc.aborted

\* C16: an execution of the wrapped function for a __call__ with more
\* positional arguments than _max_args gets the first _max_args of them, in
\* order; with no limit or a limit not below their number it gets them all;
\* in both cases it gets the keyword arguments of the __call__.
C16_ArityPrefix ==
    \A i \in DOMAIN tc.futs :
        LET f == tc.futs[i]
            n == tc.maxArgs
        IN f.runs > 0 =>
              /\ f.ranKw = f.kwargs
              /\ IF n # NoLimit /\ Len(f.args) > n
                 THEN /\ Len(f.ranWith) = n
                      /\ \A k \in 1..n : f.ranWith[k] = f.args[k]
                 ELSE f.ranWith = f.args

\* a call with two positional arguments and a keyword argument on a function
\* of one positional parameter was executed with the first and the keyword
C16_Witness ==
    /\ tc.maxArgs = 1 /\ ncalls = 1
    /\ CurFut(tc).args = <<2, 1>> /\ CurFut(tc).kwargs # {}
    /\ CurFut(tc).runs = 1 /\ CurFut(tc).ranWith = <<2>>
    /\ CurFut(tc).st = "finished"

\* C17 as stated: the future a __call__ returns is unresolved when the
\* __call__ returns, and a future gets its result only in a timer expiry or in
\* flush().
C17_InvokeNeverBlocks ==
    [][/\ Call => CurFut(ts'[1]).st = "pending"
       /\ (CurFut(ts'[1]).st = "finished" /\ ~(Timeout \/ Flush)) =>
             (~Call /\ CurFut(tc).st = "finished")]_vars

\* C17 as amended: a __call__ executes the wrapped function before it returns
\* exactly when the policy is Leading and the timer is not running, and the
\* future it returns is then resolved if the function returned; any other
\* __call__ returns an unresolved, unexecuted future, which gets its result only
\* in a timer expiry or in flush().
C17_BlocksOnlyOnLeadingEdge ==
    [][/\ (Call /\ tc.emissionPolicy = Leading /\ ~tc.timerActive) =>
             /\ CurFut(ts'[1]).runs = 1
             /\ CurFut(ts'[1]).outcome = "returned" => CurFut(ts'[1]).st = "finished"
       /\ (Call /\ ~(tc.emissionPolicy = Leading /\ ~tc.timerActive)) =>
             CurFut(ts'[1]).runs = 0 /\ CurFut(ts'[1]).st = "pending"
       /\ (~Call /\ CurFut(ts'[1]).st = "finished" /\ CurFut(tc).st # "finished") =>
             (Timeout \/ Flush)]_vars

\* the first call of a Leading throttler has returned a future that already
\* holds the result
C17_Witness ==
    /\ tc.emissionPolicy = Leading /\ ncalls = 1 /\ last.op = "call"
    /\ tc.sinceCall = 0 /\ tc.sinceFire = 0 /\ tc.nfire = 1
    /\ CurFut(tc).st = "finished" /\ CurFut(tc).val = Prefix(CurFut(tc).args, tc.maxArgs)

\* C18: a __call__ that does not execute the wrapped function returns the
\* result of the latest execution that returned one.
C18_ReturnsLastResult ==
    [][(Call /\ ~Fired) =>
          \A i \in DOMAIN tc.futs :
             (/\ tc.futs[i].st = "finished"
              /\ \A j \in DOMAIN tc.futs : j > i => tc.futs[j].st # "finished") =>
                /\ CurFut(ts'[1]).st = "finished"
                /\ CurFut(ts'[1]).val = tc.futs[i].val]_vars

C12_ScopeRestores ==
    /\ Len(scopes) = 0 => tc.throttle = "method" /\ tc.flush = "method"
    /\ Len(scopes) > 0 => tc.throttle = "lambda" /\ tc.flush = "lambda"

\* the outermost scope was left by an exception after a call inside it had
\* fired at once under policy Trailing; the next call outside it waits for the
\* timer again
C12_Witness ==
    /\ last.op = "exit by exception" /\ Len(scopes) = 0
    /\ tc.emissionPolicy = Trailing /\ ncalls = 1 /\ tc.nfire = 1
    /\ ~tc.timerActive /\ tc.throttle = "method"

\* C13: entering throttling_disabled with an object that is no throttler and
\* has no attribute throttler that is one raises TypeError, opens no scope
\* and changes no throttler.
C13_NotThrottlerTypeError ==
    [][\A obj \in Objects :
          (Enter(obj) /\ ThrottlerOf(obj) = 0) =>
             /\ last'.op = "TypeError"
             /\ scopes' = scopes /\ ts' = ts]_vars

\* TypeError raised inside an open scope a call has fired in: the scope is
\* still the only one
C13_Witness ==
    /\ last.op = "TypeError" /\ Len(scopes) = 1
    /\ ncalls = 1 /\ tc.nfire = 1 /\ tc.emissionPolicy = Trailing /\ ~tc.timerActive

\* C14: inside a throttling_disabled scope every __call__ and every throttle()
\* emits exactly once before it returns, whatever the kind, the policy and the
\* timer, and leaves hasPendingEmission and the timer as they were; flush()
\* changes nothing.
C14_DisabledFiresAtOnce ==
    [][Len(scopes) > 0 =>
          /\ (ScopeCall \/ ScopeThrottle) =>
                /\ ts'[1].nfire = tc.nfire + 1
                /\ ts'[1].hasPendingEmission = tc.hasPendingEmission
                /\ ts'[1].timerActive = tc.timerActive
                /\ ts'[1].remaining = tc.remaining
          /\ ScopeCall => CurFut(ts'[1]).runs = 1
          /\ ScopeFlush => ts' = ts]_vars

\* a call outside the scope left an emission pending and the timer running; a
\* call inside the scope has just run the function and resolved its future,
\* the emission still pending and the timer still running
C14_Witness ==
    /\ Len(scopes) = 1 /\ ncalls = 2 /\ tc.nfire = 1 /\ tc.sinceFire = 0
    /\ tc.hasPendingEmission /\ tc.timerActive /\ tc.remaining < tc.interval
    /\ tc.futs[2].st = "cancelled" /\ CurFut(tc).st = "finished"

\* C20 as stated: every emission leaves hasPendingEmission false, and it goes
\* from true to false only in a step that emits.
C20_ClearedExactlyByFiring ==
    [][/\ Fired => ~ts'[1].hasPendingEmission
       /\ (tc.hasPendingEmission /\ ~ts'[1].hasPendingEmission) => Fired]_vars

\* C20 as amended: every emission made by _emitTriggered (in throttle(), in a
\* timer expiry or in flush(); not the replacement of throttle inside
\* throttling_disabled) leaves hasPendingEmission false, and it goes from true
\* to false only in a step that emits or in cancel().
C20_ClearedByFiringOrCancel ==
    [][/\ (Fired /\ ~(tc.throttle = "lambda" /\ (ScopeCall \/ ScopeThrottle))) =>
             ~ts'[1].hasPendingEmission
       /\ (tc.hasPendingEmission /\ ~ts'[1].hasPendingEmission) =>
             (Fired \/ Cancel(1))]_vars

\* cancel() has just cleared the emission a call left pending: nothing was
\* emitted and the timer still runs
C20_Witness ==
    /\ last.op = "cancel" /\ ncalls = 1 /\ tc.nfire = 0 /\ Len(scopes) = 0
    /\ ~tc.hasPendingEmission /\ tc.timerActive /\ tc.sinceCall = 0

\* C32: with no direct throttle() call, a timer expiry never executes the
\* wrapped function for a future it was already executed for, inside or
\* outside a throttling_disabled scope, and so resolves no future twice.
C32_OncePerCall ==
    [][(ScopeTimeout /\ ncalls = Len(tc.futs) - 1) =>
          \A i \in DOMAIN tc.futs :
              ts'[1].futs[i].runs > tc.futs[i].runs => tc.futs[i].runs = 0]_vars

(* ---- properties of SpecCore ---- *)
Request == CoreCall \/ CoreThrottle

\* C21 as stated: a timer expiry that finds an emission pending emits and
\* clears the flag; a Throttler then runs its timer for a full interval, a
\* Debouncer is left with its timer stopped.
C21_DebouncerIdleAfterFiring ==
    [][(CoreExpiry /\ tc.hasPendingEmission /\ Alive') =>
          /\ Fired /\ ~ts'[1].hasPendingEmission
          /\ tc.kind = Throttler =>
                ts'[1].timerActive /\ ts'[1].remaining = ts'[1].interval
          /\ tc.kind = Debouncer => ~ts'[1].timerActive]_vars

\* C21 as amended: a timer expiry that finds an emission pending emits once,
\* clears the flag and starts the timer for a full interval, for a Throttler
\* and for a Debouncer alike.
C21_TimerRestartsAfterFiring ==
    [][(CoreExpiry /\ tc.hasPendingEmission /\ Alive') =>
          /\ ts'[1].nfire = tc.nfire + 1 /\ ~ts'[1].hasPendingEmission
          /\ ts'[1].timerActive /\ ts'[1].remaining = ts'[1].interval]_vars

\* the timer of a Debouncer has just emitted for its one request and runs
\* again for a full interval with nothing pending
C21_Witness ==
    /\ tc.kind = Debouncer /\ tc.emissionPolicy = Trailing
    /\ ncalls = 1 /\ tc.nfire = 1 /\ tc.sinceFire = 0 /\ tc.sinceCall = tc.interval
    /\ ~tc.hasPendingEmission /\ tc.timerActive /\ tc.remaining = tc.interval

\* C22: a timer expiry that finds no emission pending emits nothing, runs
\* nothing and leaves the timer stopped; so the expiry after a Leading emission
\* that no request followed does not emit a second time.
C22_ExpiryWithoutPending ==
    [][(CoreExpiry /\ ~tc.hasPendingEmission) =>
          /\ ~Fired /\ ts'[1].futs = tc.futs
          /\ ~ts'[1].timerActive /\ ~ts'[1].hasPendingEmission]_vars

\* one request emitted on the leading edge; its timer has expired and there
\* was no second emission
C22_Witness ==
    /\ tc.emissionPolicy = Leading /\ ncalls = 1 /\ tc.nfire = 1
    /\ tc.sinceFire = tc.interval /\ tc.sinceCall = tc.interval
    /\ ~tc.timerActive /\ ~tc.hasPendingEmission /\ ~tc.aborted

\* C23: a request to a Throttler whose timer runs leaves the countdown as it
\* is; a request to a Debouncer always leaves the timer running for a full
\* interval.
C23_RequestAndCountdown ==
    [][(Request /\ Alive') =>
          /\ (tc.kind = Throttler /\ tc.timerActive) =>
                ts'[1].timerActive /\ ts'[1].remaining = tc.remaining
          /\ tc.kind = Debouncer =>
                ts'[1].timerActive /\ ts'[1].remaining = ts'[1].interval]_vars

\* a Debouncer emitted for its first request; a second request one
\* millisecond later has set the countdown back to the full interval
C23_Witness ==
    /\ tc.kind = Debouncer /\ tc.emissionPolicy = Leading
    /\ ncalls = 2 /\ tc.nfire = 1 /\ tc.sinceFire = 1 /\ tc.sinceCall = 0
    /\ tc.timerActive /\ tc.remaining = tc.interval /\ tc.hasPendingEmission

\* C24: cancel() changes nothing but hasPendingEmission, which it leaves
\* false: it emits nothing and leaves the timer and its countdown alone; so a
\* Leading request made after cancel() while the timer still runs does not
\* emit.
C24_CancelFrame ==
    [][/\ Cancel(1) => ts'[1] = [tc EXCEPT !.hasPendingEmission = FALSE]
       /\ (Request /\ last.op = "cancel" /\ tc.timerActive) => ~Fired]_vars

\* cancel() has cleared the emission that a second request left pending in
\* the window of a Leading emission: the countdown goes on
C24_Witness ==
    /\ tc.emissionPolicy = Leading /\ last.op = "cancel"
    /\ ncalls = 2 /\ tc.nfire = 1 /\ ~tc.hasPendingEmission
    /\ tc.timerActive /\ tc.remaining < tc.interval /\ tc.remaining > 0

\* C27: a Debouncer with policy Leading emits once in a request that finds
\* the timer stopped and not in a request that finds it running; such a
\* request stays pending with the timer set to expire interval ms after the
\* latest request, and the emission the timer makes comes exactly then and
\* leaves nothing pending.
C27_DebounceLeading ==
    [][Is(Debouncer, Leading) =>
          /\ (Request /\ ~tc.timerActive) =>
                ts'[1].nfire = tc.nfire + 1 /\ ~ts'[1].hasPendingEmission
          /\ (Request /\ tc.timerActive) => ~Fired /\ ts'[1].hasPendingEmission
          /\ (CoreExpiry /\ Fired) =>
                tc.sinceCall = tc.interval /\ ~ts'[1].hasPendingEmission
          /\ ts'[1].hasPendingEmission =>
                /\ ts'[1].timerActive
                /\ ts'[1].remaining + ts'[1].sinceCall = ts'[1].interval]_vars

\* a burst of three requests one millisecond apart: the first emitted at
\* once, the timer has just emitted the one further time, interval ms after
\* the third
C27_Witness ==
    /\ Is(Debouncer, Leading) /\ ncalls = 3 /\ tc.nfire = 2
    /\ tc.sinceFire = 0 /\ tc.sinceCall = tc.interval
    /\ ~tc.hasPendingEmission /\ tc.timerActive /\ tc.remaining = tc.interval
    /\ last.op \in {"call", "throttle"}

C35_FlushWithoutPending ==
    [][(CoreFlush /\ ~tc.hasPendingEmission) => vars' = vars]_vars

\* flush() can be called with nothing pending while the timer is in the
\* middle of its countdown and the future of a cancelled request is unresolved
C35_Witness ==
    /\ ~tc.hasPendingEmission /\ tc.flush = "method" /\ ~tc.aborted
    /\ tc.timerActive /\ tc.remaining > 0 /\ tc.remaining < tc.interval
    /\ CurFut(tc).st = "pending" /\ last.op = "cancel"

C26_ReachesIdle ==
    /\ [][(Fired /\ Alive') =>
             /\ ~ts'[1].hasPendingEmission
             /\ ts'[1].timerActive /\ ts'[1].remaining = ts'[1].interval]_vars
    /\ [][(~tc.timerActive /\ ~tc.hasPendingEmission /\ ~Request) =>
             (~ts'[1].timerActive /\ ~ts'[1].hasPendingEmission)]_vars
    /\ <>[](tc.aborted \/ (~tc.timerActive /\ ~tc.hasPendingEmission))

\* the timer emitted for the one request, ran one more interval and has
\* expired with nothing to emit: it is stopped
C26_Witness ==
    /\ tc.emissionPolicy = Trailing /\ ncalls = 1 /\ tc.nfire = 1
    /\ tc.sinceFire = tc.interval /\ tc.sinceCall = Cap
    /\ ~tc.timerActive /\ ~tc.hasPendingEmission /\ ~tc.aborted

(* ---- properties of SpecReentrant ---- *)
\* C25: a throttle() made from inside the slot finds the firing's transition
\* completed (flag cleared, timer re-armed for a full interval), and it is
\* not lost: it stays pending or has been emitted itself.
C25_ReentrantRequestAfterTransition ==
    [][(ts'[1].nre > tc.nre /\ Alive') =>
          /\ ~ts'[1].seen.hasPendingEmission
          /\ ts'[1].seen.timerActive
          /\ ts'[1].seen.remaining = ts'[1].interval
          /\ (ts'[1].hasPendingEmission \/ ts'[1].nfire >= tc.nfire + 2)]_vars

\* what the code does keep: the request made inside the slot is not lost
C25_ReentrantRequestKept ==
    [][(ts'[1].nre > tc.nre /\ Alive') =>
          (ts'[1].hasPendingEmission \/ ts'[1].nfire >= tc.nfire + 2)]_vars

\* two emissions in one instant: the nested request fired inside the slot
C25_NestedFiring ==
    /\ tc.emissionPolicy = Leading /\ tc.nre = 1 /\ tc.nfire = 2
    /\ ncalls = 1 /\ tc.sinceCall = 0 /\ ~tc.seen.timerActive

(* ---- properties of SpecReinvoke ---- *)
\* C33: a step in which the wrapped function called its own ThrottledCallable
\* ends without an exception leaving the slot, with one emission at most (no
\* emission nested in another), with every resolved future holding the result
\* of the execution made for its own arguments, and with no future unresolved
\* but that of the latest __call__.
C33_ReentrantInvoke ==
    [][ts'[1].nre > tc.nre =>
          /\ Alive'
          /\ ts'[1].nfire <= tc.nfire + 1
          /\ \A i \in DOMAIN ts'[1].futs :
                /\ ts'[1].futs[i].st = "finished" =>
                       ts'[1].futs[i].val = ts'[1].futs[i].args
                /\ ts'[1].futs[i].st = "pending" => i = Len(ts'[1].futs)]_vars

(* ---- properties of SpecTimeout ---- *)
\* C19 as stated: setTimeout sets the duration of later countdowns and leaves
\* a running countdown to expire when it would have.
C19_RunningCountdownKept ==
    [][\A ms \in Timeouts :
          DoSetTimeout(1, ms) =>
             /\ ts'[1].interval = ms
             /\ tc.timerActive =>
                   ts'[1].timerActive /\ ts'[1].remaining = tc.remaining]_vars

\* C19 as amended: setTimeout with a new value sets the duration of later
\* countdowns and restarts a running countdown, which then expires that long
\* after the setTimeout; with the present value it changes nothing; it never
\* starts or stops the timer, emits or changes what is pending.
C19_SetTimeoutRestarts ==
    [][\A ms \in Timeouts :
          DoSetTimeout(1, ms) =>
             /\ ts'[1].interval = ms
             /\ ts'[1].timerActive = tc.timerActive
             /\ (tc.timerActive /\ ms # tc.interval) => ts'[1].remaining = ms
             /\ (~tc.timerActive \/ ms = tc.interval) => ts'[1].remaining = tc.remaining
             /\ ts'[1].hasPendingEmission = tc.hasPendingEmission
             /\ ts'[1].nfire = tc.nfire]_vars

\* one millisecond into the countdown of 2 ms that a call started, the timeout
\* was set to 1: the pending emission is now due a full millisecond later
C19_Witness ==
    /\ tc.emissionPolicy = Trailing /\ ncalls = 1 /\ tc.nfire = 0
    /\ tc.hasPendingEmission /\ tc.timerActive
    /\ tc.interval = 1 /\ tc.remaining = 1 /\ tc.sinceCall = 1

\* C31: under __call__, cancel(), flush() and timer expiries every emission
\* whose function returns resolves a future that was unresolved, with that one
\* execution; a future that holds a result keeps it and is never cancelled,
\* and a cancelled future stays cancelled without a result.
C31_ResolvedOnce ==
    [][/\ Fired /\ CurFut(ts'[1]).outcome = "returned" =>
            /\ CurFut(ts'[1]).st = "finished"
            /\ CurFut(ts'[1]).runs = 1
            /\ CurFut(ts'[1]).val = CurFut(ts'[1]).ranWith
            /\ \/ Len(ts'[1].futs) > Len(tc.futs)
               \/ CurFut(tc).st = "pending" /\ CurFut(tc).runs = 0
       /\ \A i \in DOMAIN tc.futs :
            /\ tc.futs[i].st = "finished" => ts'[1].futs[i] = tc.futs[i]
            /\ tc.futs[i].st = "cancelled" => ts'[1].futs[i] = tc.futs[i]
            /\ tc.futs[i].st = "cancelled" => tc.futs[i].val = <<>>]_vars

\* two emissions resolved the futures of the first and the third __call__, the
\* second one was superseded and cancelled
C31_Witness ==
    /\ Len(tc.futs) = 4 /\ tc.nfire = 2
    /\ tc.futs[2].st = "finished" /\ tc.futs[2].runs = 1
    /\ tc.futs[3].st = "cancelled" /\ tc.futs[3].runs = 0
    /\ tc.futs[4].st = "finished" /\ tc.futs[4].runs = 1

(* ---- properties of SpecTemplate ---- *)
\* C34: the object that __get__ makes for a receiver has the kind, policy,
\* timeout and timer type the class-level object has at that moment, and
\* making it leaves the class-level object as it was; a call or timer expiry
\* of the bound object changes nothing of the class-level object; setTimeout
\* and setTimerType of the class-level object change no bound object.
C34_BoundCopiesTemplate ==
    [][/\ (TemplateGet /\ Len(ts') > Len(ts)) =>
             LET b == ts'[Len(ts')]
             IN /\ b.kind = tc.kind /\ b.emissionPolicy = tc.emissionPolicy
                /\ b.interval = tc.interval /\ b.timerType = tc.timerType
                /\ ts'[1] = tc
       /\ \A o \in DOMAIN ts \ {1} :
             (TemplateCall(o) \/ TemplateExpiry(o)) => ts'[1] = tc
       /\ (TemplateSetTimeout \/ TemplateSetTimerType) =>
             \A o \in DOMAIN ts \ {1} : ts'[o] = ts[o]]_vars

\* the class-level object was given another timeout and timer type and has an
\* emission pending; A's object, bound after that, has the new values, has
\* fired and runs its own countdown
C34_Witness ==
    /\ Len(ts) = 2 /\ got["A"].latest = 2
    /\ tc.interval = 1 /\ tc.timerType = "CoarseTimer"
    /\ tc.hasPendingEmission /\ tc.timerActive /\ tc.nfire = 0
    /\ ts[2].interval = 1 /\ ts[2].timerType = "CoarseTimer"
    /\ ts[2].nfire = 1 /\ ts[2].timerActive /\ ~ts[2].hasPendingEmission
    /\ last = [op |-> "call", obj |-> 2]

\* the class-level object keeps its pending emission and running timer while
\* its timeout is changed after A's object was bound: A's object keeps the
\* timeout it was bound with
C34_WitnessLaterChange ==
    /\ Len(ts) = 2 /\ ts[2].interval = TimeoutMs /\ tc.interval = 1
    /\ ts[2].nfire = 1 /\ ts[2].timerActive

\* C36: the attribute access through the class, and the one through an
\* instance when the object has no name or wraps a staticmethod, return the
\* class-level object itself and make no object; every call made through
\* them acts on that one object.
C36_TemplateItself ==
    [][/\ ClassGet => (last'.obj = 1 /\ ts' = ts /\ cache' = cache)
       /\ (TemplateGet /\ (~tc.name \/ tc.isStatic)) =>
             (got'["A"].latest = 1 /\ ts' = ts /\ cache' = cache)
       /\ (~tc.name \/ tc.isStatic) => Len(ts') = 1
       /\ (got["A"].latest = 1 /\ \E o \in DOMAIN ts : TemplateCall(o)) =>
             /\ Len(ts'[1].futs) = Len(tc.futs) + 1
             /\ tc.futs[Len(tc.futs)].st = "pending" =>
                    ts'[1].futs[Len(tc.futs)].st = "cancelled"]_vars

\* A's access returned the class-level object, which wraps a staticmethod;
\* two calls were made: the second cancelled the future of the first
C36_Witness ==
    /\ tc.isStatic /\ tc.name /\ got["A"].latest = 1 /\ Len(ts) = 1
    /\ Len(tc.futs) = 3 /\ tc.futs[2].st = "cancelled"
    /\ tc.hasPendingEmission /\ tc.timerActive

(* ---- properties of SpecIsel ---- *)
\* C37: when the worker thread of an isel_async call has ended, its future is
\* completed: with (indexers, data) when isel returned, with the failure when
\* isel raised, unless the consumer cancelled it first; a cancelled future
\* stays cancelled and holds no result.
C37_FutureCompleted ==
    \A i \in DOMAIN requests :
        LET r == requests[i]
        IN /\ r.thread # "started" => r.fut.st # "pending"
           /\ r.thread = "returned" =>
                 \/ r.fut.st = "cancelled"
                 \/ /\ r.fut.st = "finished"
                    /\ r.fut.val = <<r.indexers, Isel(r.store, r.indexers)>>
           /\ r.thread = "raised" => r.fut.st \in {"cancelled", "failed"}
           /\ r.fut.st = "cancelled" => r.fut.val = <<>>

\* what the code does keep: the future of a worker that returned holds
\* (indexers, data) unless it was cancelled first, and a cancelled future
\* stays cancelled when the late result arrives
C37_ReturnedOrCancelled ==
    [][\A i \in DOMAIN requests :
          LET r == requests[i]
              q == requests'[i]
          IN /\ (r.fut.st = "cancelled") => (q.fut = r.fut)
             /\ (r.fut.st = "pending" /\ q.thread = "returned" /\ r.thread = "started") =>
                   q.fut = [st |-> "finished",
                            val |-> <<r.indexers, Isel(r.store, r.indexers)>>]]_vars

(* ---- properties of SpecBind ---- *)
BindOp(o) == BindCall(o) \/ BindCancel(o) \/ BindFlush(o) \/ BindTimeout(o)

\* C9: what a receiver's attribute access returns is an object bound to that
\* receiver alone (never the class-level object, never another receiver's);
\* a call, cancel, flush or timer expiry of one object changes no other
\* object; and the first call of an object starts its timer for a full
\* interval, and emits at once under policy Leading, whatever the other
\* objects are doing.
C9_ReceiversIndependent ==
    [][/\ \A r \in Receivers :
             got'[r].latest # 0 =>
                /\ ts'[got'[r].latest].owner = r
                /\ ts'[got'[r].first].owner = r
       /\ \A o \in DOMAIN ts :
             (\A p \in DOMAIN ts \ {o} : ts'[p] = ts[p]) \/ ~BindOp(o)
       /\ \A o \in DOMAIN ts :
             (ncalls' # ncalls /\ Len(ts[o].futs) = 1 /\ BindCall(o)) =>
                /\ ts'[o].timerActive /\ ts'[o].remaining = ts'[o].interval
                /\ ts[o].emissionPolicy = Leading => ts'[o].nfire = 1]_vars

\* A's object inside the window its call opened, and B's object called since:
\* it emitted at once and runs its own full interval
C9_Witness ==
    /\ got["A"].latest # 0 /\ got["B"].latest # 0
    /\ LET a == ts[got["A"].latest]
           b == ts[got["B"].latest]
       IN /\ Len(a.futs) = 2 /\ a.nfire = 1 /\ a.timerActive
          /\ a.remaining < a.interval
          /\ Len(b.futs) = 2 /\ b.timerActive /\ b.remaining = b.interval
          /\ b.emissionPolicy = Leading /\ b.nfire = 1
          /\ last = [op |-> "call", obj |-> got["B"].latest]

\* C10: every attribute access through a receiver returns the object that the
\* receiver's first access returned.
C10_SameInstance ==
    \A r \in Receivers : got[r].latest = got[r].first
====
